---------------------------- MODULE Spec2Model ----------------------------
(***************************************************************************)
(* Model of the notebook 03a_Intro_to_GIS_Vector_Data.ipynb: a Jupyter     *)
(* session over the variables data, data_in_3857, selection and newdata,   *)
(* the files the cells read and write, and the calls recorded by the last  *)
(* cell that ran.                                                          *)
(*                                                                         *)
(* Every operation of the notebook is a call into geopandas                *)
(* (read_file, to_crs, set_crs, area, total_bounds, slicing, to_file).     *)
(* The operators below give each call the behaviour the notebook relies    *)
(* on at its call site: to_crs and set_crs return a new frame (the         *)
(* notebook binds or rebinds the result), area warns under a geographic    *)
(* CRS (comment at line 260), to_crs on a frame with no CRS and set_crs    *)
(* over a different CRS raise ValueError.                                  *)
(*                                                                         *)
(* The session may run the cells in any order and any number of times, as  *)
(* a Jupyter kernel allows.  The CRS argument of data.to_crs and of        *)
(* newdata.set_crs is 'epsg:3857' and 'epsg:4326' in the notebook; the     *)
(* session passes either code to either call.  The spec's length           *)
(* operation has no call in the notebook and is modelled from the spec.    *)
(* A second specification, SpecNotebook, runs the cells once from the      *)
(* first to the last with the arguments the notebook passes; pc is the     *)
(* cell it runs next (pc stays 0 in the free session).                     *)
(*                                                                         *)
(* Units: geographic coordinates are whole millidegrees, projected         *)
(* coordinates whole metres.  A geometry is its sequence of vertices       *)
(* <<x, y>>; attribute columns are not modelled.                           *)
(***************************************************************************)
EXTENDS Integers, Sequences, FiniteSets, TLC

VARIABLES files, data, data_in_3857, selection, newdata, out, pc

vars == <<files, data, data_in_3857, selection, newdata, out, pc>>

---------------------------------------------------------------------------
(* Bounds of the model. *)

\* the largest number of features in the shapefile the session loads
MaxFeat == 2

---------------------------------------------------------------------------
(* Coordinate reference systems. *)

WGS84 == "EPSG:4326"
WebMercator == "EPSG:3857"
None == "None"

CRS == {WGS84, WebMercator}

\* every assigned CRS taken for a geographic one
is_geographic_any(crs) == crs \in {WGS84, WebMercator}

\* pyproj's CRS.is_geographic: WGS 84 has units of degrees, Web Mercator metres
is_geographic(crs) == crs = WGS84

\* Web Mercator is "not accurate at high latitudes >85 degrees, <-85 degrees"
InEnvelope(target, crs, pt) ==
    IF target = WebMercator /\ crs = WGS84
    THEN pt[2] <= 85000 /\ pt[2] >= -85000
    ELSE TRUE

---------------------------------------------------------------------------
(* The transform between WGS 84 and Web Mercator (spherical Mercator on    *)
(* a sphere of radius 6378137 m), in integer arithmetic that stays within  *)
(* 32 bits.  Latitudes are those of -89 to 89 degrees.                     *)

\* metres of easting per two degrees of longitude (2 * pi * 6378137 / 180)
MetresPer2Deg == 222639

\* northing of latitude k degrees, k = 0..89, at index k + 1
MercatorY ==
  <<0, 111325, 222684, 334111, 445640, 557305, 669141, 781182, 893464, 1006021,
    1118890, 1232107, 1345708, 1459732, 1574217, 1689200, 1804723, 1920825,
    2037549, 2154936, 2273031, 2391879, 2511525, 2632019, 2753408, 2875745,
    2999081, 3123472, 3248974, 3375646, 3503550, 3632749, 3763311, 3895304,
    4028802, 4163881, 4300621, 4439107, 4579426, 4721672, 4865942, 5012342,
    5160979, 5311972, 5465442, 5621521, 5780349, 5942074, 6106855, 6274861,
    6446276, 6621294, 6800125, 6982998, 7170156, 7361866, 7558416, 7760119,
    7967318, 8180387, 8399738, 8625823, 8859143, 9100251, 9349764, 9608372,
    9876846, 10156059, 10446997, 10750787, 11068716, 11402272, 11753185, 12123478,
    12515545, 12932243, 13377020, 13854091, 14368684, 14927396, 15538711,
    16213801, 16967797, 17821912, 18807214, 19971869, 21396567, 23232577,
    25819499, 30240972>>

Abs(n) == IF n < 0 THEN -n ELSE n

LonToX(lon) ==
    LET m == MetresPer2Deg
        q == lon \div 1000
        r == lon % 1000
    IN  (q * m) \div 2 + (r * m) \div 2000

XToLon(x) ==
    LET m == MetresPer2Deg
        q == (2 * x) \div m
        r == 2 * x - q * m
    IN  q * 1000 + (r * 1000) \div m

LatToY(lat) ==
    LET a == Abs(lat)
        k == IF a >= 89000 THEN 88 ELSE a \div 1000
        r == a - k * 1000
        d == MercatorY[k + 2] - MercatorY[k + 1]
        y == MercatorY[k + 1] + (r * (d \div 100)) \div 10
    IN  IF lat < 0 THEN -y ELSE y

\* the degree k in lo..hi whose band of northings holds a, by bisection
RECURSIVE Band(_, _, _)
Band(a, lo, hi) ==
    IF lo >= hi THEN lo
    ELSE LET mid == (lo + hi + 1) \div 2
         IN  IF a < MercatorY[mid + 1] THEN Band(a, lo, mid - 1) ELSE Band(a, mid, hi)

\* the inverse northing of an equirectangular projection, not of Mercator
YToLat_equirectangular(y) == (y * 2) \div (MetresPer2Deg \div 1000)

YToLat(y) ==
    LET a == Abs(y)
        k == Band(a, 0, 88)
        d == MercatorY[k + 2] - MercatorY[k + 1]
        l == k * 1000 + ((a - MercatorY[k + 1]) * 10) \div (d \div 100)
    IN  IF y < 0 THEN -l ELSE l

\* pyproj Transformer.transform for one vertex
Transform(src, dst, pt) ==
    IF src = dst THEN pt
    ELSE IF src = WGS84 /\ dst = WebMercator THEN <<LonToX(pt[1]), LatToY(pt[2])>>
    ELSE <<XToLon(pt[1]), YToLat(pt[2])>>

TransformGeom(src, dst, g) == [j \in 1..Len(g) |-> Transform(src, dst, g[j])]

\* every geometry of a geometry column, transformed, in order
TransformColumn(src, dst, geometry) ==
    [i \in 1..Len(geometry) |-> TransformGeom(src, dst, geometry[i])]

---------------------------------------------------------------------------
(* Frames (GeoDataFrame values), files and call records. *)

Frame(crs, geometry) == [bound |-> TRUE, crs |-> crs, geometry |-> geometry]

\* a notebook name that no cell has bound yet
Unbound == [bound |-> FALSE, crs |-> None, geometry |-> <<>>]

File(driver, crs, geometry) ==
    [readable |-> TRUE, driver |-> driver, crs |-> crs, geometry |-> geometry]

\* a path with nothing readable behind it
Absent == [readable |-> FALSE, driver |-> "", crs |-> None, geometry |-> <<>>]

NoErr == ""
NoWarn == ""
NoArg == ""

\* ValueError: Cannot transform naive geometries. Please set a crs on the object first.
UndefinedCRSError == "ValueError: cannot transform naive geometries"
\* ValueError: The GeoSeries already has a CRS which is not equal to the passed CRS.
InvalidCRSError == "ValueError: already has a CRS which is not equal to the passed CRS"
\* fiona's DriverError for a source that cannot be opened
FormatError == "DriverError"
\* UserWarning: Geometry is in a geographic CRS. Results from 'area' are likely incorrect.
UnitMismatchWarning == "UserWarning: geometry is in a geographic CRS"
NameError == "NameError"

\* What one library call did: rcv is the receiver before the call, self the
\* receiver after it, ret the frame it returned (Unbound when it returned
\* none), val the numbers it returned; on is the notebook name the receiver
\* was taken from ("" for the value of an expression).
Call(op, arg, rcv, self, ret, err, warn, val) ==
    [op |-> op, on |-> "", arg |-> arg, rcv |-> rcv, self |-> self, ret |-> ret,
     err |-> err, warn |-> warn, val |-> val]

On(name, call) == [call EXCEPT !.on = name]

---------------------------------------------------------------------------
(* The library calls the cells make. *)

\* read_file that takes every source without CRS metadata for WGS 84
read_file_assumes_wgs84(f) ==
    IF ~f.readable
    THEN Call("read_file", NoArg, Unbound, Unbound, Unbound, FormatError, NoWarn, <<>>)
    ELSE Call("read_file", f.crs, Unbound, Unbound,
              Frame(IF f.crs = None THEN WGS84 ELSE f.crs, f.geometry),
              NoErr, NoWarn, <<>>)

\* gpd.read_file(path): arg is the CRS metadata found in the source. A
\* shapefile without a .prj gives a frame without CRS; a GeoJSON document
\* without a crs member is read as WGS 84, the CRS of the format.
read_file(f) ==
    IF ~f.readable
    THEN Call("read_file", NoArg, Unbound, Unbound, Unbound, FormatError, NoWarn, <<>>)
    ELSE Call("read_file", f.crs, Unbound, Unbound,
              Frame(IF f.driver = "GeoJSON" /\ f.crs = None THEN WGS84 ELSE f.crs,
                    f.geometry),
              NoErr, NoWarn, <<>>)

\* to_crs with inplace=True: the receiver is transformed as well
to_crs_inplace(df, crs) ==
    IF df.crs = None
    THEN Call("to_crs", crs, df, df, Unbound, UndefinedCRSError, NoWarn, <<>>)
    ELSE LET new == Frame(crs, TransformColumn(df.crs, crs, df.geometry))
         IN  Call("to_crs", crs, df, new, new, NoErr, NoWarn, <<>>)

\* to_crs that stops after the first feature: the rest keep their coordinates
to_crs_first_only(df, crs) ==
    IF df.crs = None
    THEN Call("to_crs", crs, df, df, Unbound, UndefinedCRSError, NoWarn, <<>>)
    ELSE Call("to_crs", crs, df, df,
              Frame(crs, [i \in 1..Len(df.geometry) |->
                             IF i = 1 THEN TransformGeom(df.crs, crs, df.geometry[i])
                             ELSE df.geometry[i]]),
              NoErr, NoWarn, <<>>)

\* to_crs that stops one vertex short in every geometry
to_crs_skips_last(df, crs) ==
    IF df.crs = None
    THEN Call("to_crs", crs, df, df, Unbound, UndefinedCRSError, NoWarn, <<>>)
    ELSE Call("to_crs", crs, df, df,
              Frame(crs, [i \in 1..Len(df.geometry) |->
                             [j \in 1..(Len(df.geometry[i]) - 1) |->
                                 Transform(df.crs, crs, df.geometry[i][j])]]),
              NoErr, NoWarn, <<>>)

\* to_crs that takes a frame without a CRS to be in WGS 84
to_crs_assumes_wgs84(df, crs) ==
    LET src == IF df.crs = None THEN WGS84 ELSE df.crs
    IN  Call("to_crs", crs, df, df,
             Frame(crs, TransformColumn(src, crs, df.geometry)), NoErr, NoWarn, <<>>)

\* to_crs that clamps latitudes to the Web Mercator envelope before transforming
to_crs_clamped(df, crs) ==
    IF df.crs = None
    THEN Call("to_crs", crs, df, df, Unbound, UndefinedCRSError, NoWarn, <<>>)
    ELSE Call("to_crs", crs, df, df,
              Frame(crs, [i \in 1..Len(df.geometry) |->
                  [j \in 1..Len(df.geometry[i]) |->
                      LET pt == df.geometry[i][j]
                          lat == IF pt[2] > 85000 THEN 85000
                                 ELSE IF pt[2] < -85000 THEN -85000 ELSE pt[2]
                      IN  IF InEnvelope(crs, df.crs, pt)
                          THEN Transform(df.crs, crs, pt)
                          ELSE Transform(df.crs, crs, <<pt[1], lat>>)]]),
              NoErr, NoWarn, <<>>)

\* df.to_crs(crs): a new frame with every vertex transformed
to_crs(df, crs) ==
    IF df.crs = None
    THEN Call("to_crs", crs, df, df, Unbound, UndefinedCRSError, NoWarn, <<>>)
    ELSE Call("to_crs", crs, df, df,
              Frame(crs, TransformColumn(df.crs, crs, df.geometry)),
              NoErr, NoWarn, <<>>)

\* set_crs that converts the coordinates from degrees to the CRS it labels
set_crs_converting(df, crs) ==
    IF df.crs # None /\ df.crs # crs
    THEN Call("set_crs", crs, df, df, Unbound, InvalidCRSError, NoWarn, <<>>)
    ELSE Call("set_crs", crs, df, df,
              Frame(crs, TransformColumn(WGS84, crs, df.geometry)), NoErr, NoWarn, <<>>)

\* set_crs with allow_override=True: relabels whatever the frame carried
set_crs_override(df, crs) ==
    Call("set_crs", crs, df, df, Frame(crs, df.geometry), NoErr, NoWarn, <<>>)

\* df.set_crs(crs): a new frame with the CRS label, allow_override=False
set_crs(df, crs) ==
    IF df.crs # None /\ df.crs # crs
    THEN Call("set_crs", crs, df, df, Unbound, InvalidCRSError, NoWarn, <<>>)
    ELSE Call("set_crs", crs, df, df, Frame(crs, df.geometry), NoErr, NoWarn, <<>>)

\* twice the signed area of the fan of triangles from the first vertex
RECURSIVE Fan(_, _)
Fan(g, j) ==
    IF j + 1 > Len(g) THEN 0
    ELSE (g[j][1] - g[1][1]) * (g[j + 1][2] - g[1][2])
         - (g[j + 1][1] - g[1][1]) * (g[j][2] - g[1][2])
         + Fan(g, j + 1)

\* shapely's planar area of one geometry, in squared coordinate units
PolygonArea(g) == IF Len(g) < 3 THEN 0 ELSE Abs(Fan(g, 2)) \div 2

\* area without the check for a geographic CRS
area_unchecked(df) ==
    Call("area", NoArg, df, df, Unbound, NoErr, NoWarn,
         [i \in 1..Len(df.geometry) |-> PolygonArea(df.geometry[i])])

\* df.area: one area per feature, with a warning under a geographic CRS
area(df) ==
    Call("area", NoArg, df, df, Unbound, NoErr,
         IF df.crs # None /\ is_geographic(df.crs) THEN UnitMismatchWarning ELSE NoWarn,
         [i \in 1..Len(df.geometry) |-> PolygonArea(df.geometry[i])])

\* the integer square root, by Newton's iteration from above
RECURSIVE Newton(_, _)
Newton(n, x) ==
    LET y == (x + n \div x) \div 2
    IN  IF y >= x THEN x ELSE Newton(n, y)

Isqrt(n) == IF n < 2 THEN n ELSE Newton(n, n)

Dist(p, q) == Isqrt((p[1] - q[1]) * (p[1] - q[1]) + (p[2] - q[2]) * (p[2] - q[2]))

\* the length of the closed ring through the vertices of g
RECURSIVE Ring(_, _)
Ring(g, j) ==
    IF j > Len(g) THEN 0
    ELSE Dist(g[j], g[IF j = Len(g) THEN 1 ELSE j + 1]) + Ring(g, j + 1)

\* df.length: one perimeter per feature, with the same warning as area
length(df) ==
    Call("length", NoArg, df, df, Unbound, NoErr,
         IF df.crs # None /\ is_geographic(df.crs) THEN UnitMismatchWarning ELSE NoWarn,
         [i \in 1..Len(df.geometry) |-> Ring(df.geometry[i], 1)])

Min(S) == CHOOSE m \in S : \A n \in S : m <= n
Max(S) == CHOOSE m \in S : \A n \in S : m >= n

Vertices(geometry) ==
    UNION {{geometry[i][j] : j \in 1..Len(geometry[i])} : i \in 1..Len(geometry)}

\* df.total_bounds: (minx, miny, maxx, maxy); no numbers for an empty frame
total_bounds(df) ==
    LET V == Vertices(df.geometry)
    IN  Call("total_bounds", NoArg, df, df, Unbound, NoErr, NoWarn,
             IF V = {} THEN <<>>
             ELSE <<Min({v[1] : v \in V}), Min({v[2] : v \in V}),
                    Max({v[1] : v \in V}), Max({v[2] : v \in V})>>)

\* a slice that takes every row, whatever its stop
getitem_ignores_stop(df, lo, hi) ==
    Call("getitem", NoArg, df, df, Frame(df.crs, df.geometry), NoErr, NoWarn, <<>>)

\* a slice that comes back as a plain table, its CRS lost
getitem_drops_crs(df, lo, hi) ==
    LET n == Len(df.geometry)
        e == IF hi < n THEN hi ELSE n
    IN  Call("getitem", NoArg, df, df,
             Frame(None, SubSeq(df.geometry, lo + 1, e)), NoErr, NoWarn, <<>>)

\* df[lo:hi], a positional row slice
getitem(df, lo, hi) ==
    LET n == Len(df.geometry)
        e == IF hi < n THEN hi ELSE n
    IN  Call("getitem", NoArg, df, df,
             Frame(df.crs, SubSeq(df.geometry, lo + 1, e)), NoErr, NoWarn, <<>>)

\* to_file that first gives a frame without a CRS the GeoJSON default, WGS 84
to_file_defaults_crs(df, driver) ==
    Call("to_file", driver, df,
         IF df.crs = None THEN Frame(WGS84, df.geometry) ELSE df,
         Unbound, NoErr, NoWarn, <<>>)

\* df.to_file(path, driver=...): the features and the CRS, as they are now
to_file(df, driver) ==
    Call("to_file", driver, df, df, Unbound, NoErr, NoWarn, <<>>)

\* df.plot(...): the frame's coordinates drawn on the axes as they are
plot(df) == Call("plot", NoArg, df, df, Unbound, NoErr, NoWarn, <<>>)

\* ctx.add_basemap(ax, crs=...): arg is the CRS the tiles are drawn for; "it
\* assumes the data is in web mercator (epsg:3857) unless you specify
\* otherwise"
add_basemap(crs) ==
    Call("add_basemap", IF crs = None THEN WebMercator ELSE crs,
         Unbound, Unbound, Unbound, NoErr, NoWarn, <<>>)

\* ctx.bounds2img(w, s, e, n, zoom, ll=True): "bounds2img returns things in
\* epsg:3857"
bounds2img ==
    Call("bounds2img", WebMercator, Unbound, Unbound, Unbound, NoErr, NoWarn, <<>>)

---------------------------------------------------------------------------
(* What the session reads: the flood-risk shapefile, whose features and    *)
(* CRS metadata are its author's, and the polygon the notebook types in.   *)

\* a flood polygon near (120.0, 15.0) and one near latitude 89, in millidegrees
FloodA == <<<<120000, 15000>>, <<120050, 15000>>, <<120000, 15040>>>>
Polar == <<<<10000, 89000>>, <<10010, 89000>>, <<10000, 88990>>>>

Geoms == {FloodA, Polar}

\* the feature tables of at most MaxFeat features
Tables == UNION {[1..n -> Geoms] : n \in 0..MaxFeat}

\* the tables of a shapefile without CRS metadata or in metres; the
\* notebook's own shapefile is in WGS 84
MaxFeatOther == 1

OtherTables == UNION {[1..n -> Geoms] : n \in 0..MaxFeatOther}

\* what may lie behind filepath: a shapefile in WGS 84, one without a .prj,
\* one in Web Mercator, or nothing readable
Shapefiles ==
    {File("ESRI Shapefile", WGS84, g) : g \in Tables}
    \cup {File("ESRI Shapefile", None, g) : g \in OtherTables}
    \cup {File("ESRI Shapefile", WebMercator,
               TransformColumn(WGS84, WebMercator, g))
            : g \in OtherTables}
    \cup {Absent}

\* a health site, a point, in millidegrees
Clinic == <<<<121000, 14600>>>>

\* philippines_healthsites.geojson, with and without a crs member
HealthSites == {File("GeoJSON", c, <<Clinic>>) : c \in {None, WGS84}}

healthsites == "philippines_healthsites.geojson"
filepath == "philippines_flood_risk/phl_ica_floodrisk_geonode_mar2014.shp"
outfp_selection == "output_data/data_selection.json"
outfp_campus == "output_data/MIT_campus.shp"

Paths == {filepath, outfp_selection, outfp_campus}

\* the MIT main campus, Polygon(coordinates), in millidegrees
poly == <<<<-71093, 42358>>, <<-71080, 42362>>, <<-71090, 42363>>, <<-71095, 42360>>>>

\* the row count of the slice data[0:20], on the scale of tables of at most
\* MaxFeat features
SliceEnd == 1

---------------------------------------------------------------------------
(* The session. *)

Init ==
    /\ \E f \in Shapefiles :
          files = [p \in Paths |-> IF p = filepath THEN f ELSE Absent]
    /\ data = Unbound
    /\ data_in_3857 = Unbound
    /\ selection = Unbound
    /\ newdata = Unbound
    /\ out = <<>>
    /\ pc = 0

\* a cell that names a variable no cell has bound stops with NameError
Fails ==
    /\ out' = <<Call("name", NoArg, Unbound, Unbound, Unbound, NameError, NoWarn, <<>>)>>
    /\ UNCHANGED <<files, data, data_in_3857, selection, newdata>>

\* data = gpd.read_file(filepath)
CellReadFile ==
    LET r == read_file(files[filepath])
    IN  /\ data' = IF r.err = NoErr THEN r.ret ELSE data
        /\ out' = <<On(filepath, r)>>
        /\ UNCHANGED <<files, data_in_3857, selection, newdata>>

\* health_sites_gdf = gpd.read_file('philippines_healthsites.geojson', driver='GeoJSON')
\* (the frame is only shown on the map; no later cell measures or saves it)
CellReadHealthSites ==
    \E f \in HealthSites :
        /\ out' = <<On(healthsites, read_file(f))>>
        /\ UNCHANGED <<files, data, data_in_3857, selection, newdata>>

\* data.area
CellArea ==
    IF ~data.bound THEN Fails
    ELSE LET a == area(data)
         IN  /\ data' = a.self
             /\ out' = <<On("data", a)>>
             /\ UNCHANGED <<files, data_in_3857, selection, newdata>>

\* data.length: the length operation of the geometry store
CellLength ==
    IF ~data.bound THEN Fails
    ELSE LET l == length(data)
         IN  /\ data' = l.self
             /\ out' = <<On("data", l)>>
             /\ UNCHANGED <<files, data_in_3857, selection, newdata>>

\* data_in_3857 = data.to_crs(crs); data_in_3857.area
\* (the notebook passes 'epsg:3857')
CellToCrs(crs) ==
    IF ~data.bound THEN Fails
    ELSE LET r == to_crs(data, crs)
             a == area(r.ret)
         IN  /\ data' = r.self
             /\ data_in_3857' = IF r.err = NoErr THEN a.self ELSE data_in_3857
             /\ out' = IF r.err = NoErr
                       THEN <<On("data", r), On("data_in_3857", a)>>
                       ELSE <<On("data", r)>>
             /\ UNCHANGED <<files, selection, newdata>>

\* w,s,e,n = data.total_bounds
CellTotalBounds ==
    IF ~data.bound THEN Fails
    ELSE LET b == total_bounds(data)
         IN  /\ data' = b.self
             /\ out' = <<On("data", b)>>
             /\ UNCHANGED <<files, data_in_3857, selection, newdata>>

\* ax = data.plot(...); ctx.add_basemap(ax, crs=data.crs)
CellBasemap ==
    IF ~data.bound THEN Fails
    ELSE LET p == plot(data)
         IN  /\ data' = p.self
             /\ out' = <<On("data", p), add_basemap(p.self.crs)>>
             /\ UNCHANGED <<files, data_in_3857, selection, newdata>>

\* the tile overlay whose axes take their limits from the frame the cell
\* loaded, not from the frame it drew
CellTileOverlay_stale ==
    IF ~data.bound THEN Fails
    ELSE LET r1 == to_crs(data, WebMercator)
             p == plot(r1.ret)
             r2 == to_crs(r1.self, WebMercator)
             b == total_bounds(r2.self)
         IN  /\ data' = IF r1.err = NoErr THEN r2.self ELSE r1.self
             /\ out' = IF r1.err = NoErr
                       THEN <<bounds2img, On("data", r1), p, On("data", r2), b>>
                       ELSE <<bounds2img, On("data", r1)>>
             /\ UNCHANGED <<files, data_in_3857, selection, newdata>>

\* img, ext = ctx.bounds2img(w, s, e, n, 6, ll=True, ...); ax.imshow(img, extent=ext)
\* data.to_crs(epsg=3857).plot(ax=ax, ...)
\* ax_bounds = data.to_crs(epsg=3857).total_bounds
\* (the extent of the tiles, w,s,e,n, is not part of the model)
CellTileOverlay ==
    IF ~data.bound THEN Fails
    ELSE LET r1 == to_crs(data, WebMercator)
             p == plot(r1.ret)
             r2 == to_crs(r1.self, WebMercator)
             b == total_bounds(r2.ret)
         IN  /\ data' = IF r1.err = NoErr THEN r2.self ELSE r1.self
             /\ out' = IF r1.err = NoErr
                       THEN <<bounds2img, On("data", r1), p, On("data", r2), b>>
                       ELSE <<bounds2img, On("data", r1)>>
             /\ UNCHANGED <<files, data_in_3857, selection, newdata>>

\* selection = data[0:20]; selection.to_file(outfp, driver='GeoJSON')
CellSelectSave ==
    IF ~data.bound THEN Fails
    ELSE LET s == getitem(data, 0, SliceEnd)
             w == to_file(s.ret, "GeoJSON")
         IN  /\ data' = s.self
             /\ selection' = w.self
             /\ files' = [files EXCEPT ![outfp_selection] =
                             File("GeoJSON", w.self.crs, w.self.geometry)]
             /\ out' = <<On("data", s), On("selection", w)>>
             /\ UNCHANGED <<data_in_3857, newdata>>

\* newdata = gpd.GeoDataFrame(); newdata['geometry'] = None
CellNewData ==
    /\ newdata' = Frame(None, <<>>)
    /\ out' = <<Call("GeoDataFrame", NoArg, Unbound, Unbound, Frame(None, <<>>),
                     NoErr, NoWarn, <<>>)>>
    /\ UNCHANGED <<files, data, data_in_3857, selection>>

\* poly = Polygon(coordinates); newdata.loc[0, 'geometry'] = poly
\* (the notebook fills the frame before it gives it a CRS)
CellInsertPoly ==
    IF ~newdata.bound THEN Fails
    ELSE /\ newdata.crs = None
         /\ newdata' = Frame(newdata.crs, <<poly>>)
         /\ out' = <<On("newdata", Call("loc", NoArg, newdata,
                                         Frame(newdata.crs, <<poly>>), Unbound,
                                         NoErr, NoWarn, <<>>))>>
         /\ UNCHANGED <<files, data, data_in_3857, selection>>

\* newdata.set_crs(crs) with its result not bound to any name
CellSetCrs_unassigned(crs) ==
    IF ~newdata.bound THEN Fails
    ELSE LET r == set_crs(newdata, crs)
         IN  /\ newdata' = r.self
             /\ out' = <<On("newdata", r)>>
             /\ UNCHANGED <<files, data, data_in_3857, selection>>

\* newdata = newdata.set_crs(crs)   (the notebook passes 'epsg:4326')
CellSetCrs(crs) ==
    IF ~newdata.bound THEN Fails
    ELSE LET r == set_crs(newdata, crs)
         IN  /\ newdata' = IF r.err = NoErr THEN r.ret ELSE r.self
             /\ out' = <<On("newdata", r)>>
             /\ UNCHANGED <<files, data, data_in_3857, selection>>

\* the shapefile written without its .prj
CellSaveNewData_no_prj ==
    IF ~newdata.bound THEN Fails
    ELSE LET w == to_file(newdata, "ESRI Shapefile")
         IN  /\ newdata' = w.self
             /\ files' = [files EXCEPT ![outfp_campus] =
                             File("ESRI Shapefile", None, w.self.geometry)]
             /\ out' = <<On("newdata", w)>>
             /\ UNCHANGED <<data, data_in_3857, selection>>

\* newdata.to_file(outfp)
CellSaveNewData ==
    IF ~newdata.bound THEN Fails
    ELSE LET w == to_file(newdata, "ESRI Shapefile")
         IN  /\ newdata' = w.self
             /\ files' = [files EXCEPT ![outfp_campus] =
                             File("ESRI Shapefile", w.self.crs, w.self.geometry)]
             /\ out' = <<On("newdata", w)>>
             /\ UNCHANGED <<data, data_in_3857, selection>>

\* the last cell without its reprojection: newdata drawn as it is
CellPlotNewData_as_is ==
    IF ~newdata.bound THEN Fails
    ELSE LET p == plot(newdata)
         IN  /\ newdata' = p.self
             /\ out' = <<On("newdata", p), add_basemap(None)>>
             /\ UNCHANGED <<files, data, data_in_3857, selection>>

\* ax = newdata.to_crs(epsg=3857).plot(...); ctx.add_basemap(ax)
CellPlotNewData ==
    IF ~newdata.bound THEN Fails
    ELSE LET r == to_crs(newdata, WebMercator)
             p == plot(r.ret)
         IN  /\ newdata' = r.self
             /\ out' = IF r.err = NoErr
                       THEN <<On("newdata", r), p, add_basemap(None)>>
                       ELSE <<On("newdata", r)>>
             /\ UNCHANGED <<files, data, data_in_3857, selection>>

\* the cells run one at a time, in any order and any number of times
Next ==
    \/ CellReadFile /\ UNCHANGED pc
    \/ CellReadHealthSites /\ UNCHANGED pc
    \/ CellArea /\ UNCHANGED pc
    \/ CellLength /\ UNCHANGED pc
    \/ \E crs \in CRS : CellToCrs(crs) /\ UNCHANGED pc
    \/ CellBasemap /\ UNCHANGED pc
    \/ CellTotalBounds /\ UNCHANGED pc
    \/ CellTileOverlay /\ UNCHANGED pc
    \/ CellSelectSave /\ UNCHANGED pc
    \/ CellNewData /\ UNCHANGED pc
    \/ CellInsertPoly /\ UNCHANGED pc
    \/ \E crs \in CRS : CellSetCrs(crs) /\ UNCHANGED pc
    \/ CellSaveNewData /\ UNCHANGED pc
    \/ CellPlotNewData /\ UNCHANGED pc

Spec == Init /\ [][Next]_vars

---------------------------------------------------------------------------
(* The notebook run from its first cell to its last, with the arguments it *)
(* passes. Its shapefile is the one the notebook describes: "the data is   *)
(* currently in WGS84 (epsg:4326)".                                        *)

InitNotebook ==
    /\ \E g \in Tables :
          files = [p \in Paths |->
                     IF p = filepath THEN File("ESRI Shapefile", WGS84, g) ELSE Absent]
    /\ data = Unbound
    /\ data_in_3857 = Unbound
    /\ selection = Unbound
    /\ newdata = Unbound
    /\ out = <<>>
    /\ pc = 1

NextNotebook ==
    \/ pc = 1 /\ CellReadFile /\ pc' = 2
    \/ pc = 2 /\ CellArea /\ pc' = 3
    \/ pc = 3 /\ CellToCrs(WebMercator) /\ pc' = 4
    \/ pc \in {4, 5, 6} /\ CellBasemap /\ pc' = pc + 1
    \/ pc = 7 /\ CellTotalBounds /\ pc' = 8
    \/ pc = 8 /\ CellTileOverlay /\ pc' = 9
    \/ pc = 9 /\ CellReadHealthSites /\ pc' = 10
    \/ pc = 10 /\ CellSelectSave /\ pc' = 11
    \/ pc = 11 /\ CellNewData /\ pc' = 12
    \/ pc = 12 /\ CellInsertPoly /\ pc' = 13
    \/ pc = 13 /\ CellSetCrs(WGS84) /\ pc' = 14
    \/ pc = 14 /\ CellSaveNewData /\ pc' = 15
    \/ pc = 15 /\ CellPlotNewData /\ pc' = 16

SpecNotebook == InitNotebook /\ [][NextNotebook]_vars

---------------------------------------------------------------------------
(* The claims. *)

\* the calls of the cell that ran last
Calls == {out[k] : k \in 1..Len(out)}

Assigned(df) == df.crs \in CRS
Undefined(df) == df.crs = None

\* every feature of new is the image of the feature of old at its place
ImageOf(old, new) ==
    /\ Len(new.geometry) = Len(old.geometry)
    /\ \A i \in 1..Len(old.geometry) :
          new.geometry[i] = TransformGeom(old.crs, new.crs, old.geometry[i])

\* df is old as it was, or old with every feature and the tag in the target crs
WhollyIn(df, old, crs) ==
    \/ df.crs = old.crs /\ df.geometry = old.geometry
    \/ df.crs = crs /\ ImageOf(old, df)

\* C1: in every state the features of a collection are all in the CRS of its
\* tag: whatever a to_crs call leaves behind (the receiver, the frame it
\* returned, data_in_3857 next to data) is wholly in the source CRS or wholly
\* in the target CRS, tag included, never part one and part the other.
C1_OneCrsPerCollection ==
    /\ \A c \in Calls : c.op = "to_crs" =>
          /\ WhollyIn(c.self, c.rcv, c.arg)
          /\ c.ret.bound => WhollyIn(c.ret, c.rcv, c.arg)
    /\ data_in_3857.bound =>
          /\ data.bound /\ Assigned(data) /\ Assigned(data_in_3857)
          /\ ImageOf(data, data_in_3857)

\* a collection of several features has been reprojected into another CRS
C1_Witness ==
    /\ data_in_3857.bound
    /\ data_in_3857.crs # data.crs
    /\ Len(data.geometry) >= 2
    /\ data_in_3857.geometry # data.geometry

\* C2: to_crs never changes the frame it is called on, whether it returns or
\* raises: the receiver after the call is the receiver before it, and the
\* notebook name that holds it (data, newdata) still holds that same frame.
C2_ReprojectLeavesInput ==
    \A c \in Calls : c.op = "to_crs" =>
        /\ c.self = c.rcv
        /\ c.on = "data" => data = c.rcv
        /\ c.on = "newdata" => newdata = c.rcv
        /\ c.err = NoErr => c.ret.bound

\* a reprojection that moved every coordinate has returned
C2_Witness ==
    \E c \in Calls :
        /\ c.op = "to_crs" /\ c.on = "data" /\ c.err = NoErr
        /\ c.rcv.geometry # <<>>
        /\ c.ret.geometry # c.rcv.geometry

\* the calls that neither build a frame nor transform one
LabelOnlyOps == {"set_crs", "area", "length", "total_bounds", "getitem", "to_file"}

\* C3: a set_crs that succeeds returns the frame with the CRS it was given and
\* with every coordinate as it was; of the operations on a collection only
\* to_crs returns or leaves coordinates that differ from the receiver's.
C3_SetCrsLabelOnly ==
    \A c \in Calls :
        /\ (c.op = "set_crs" /\ c.err = NoErr) =>
              /\ c.ret.bound
              /\ c.ret.crs = c.arg
              /\ c.ret.geometry = c.rcv.geometry
              /\ newdata = c.ret
        /\ c.op \in LabelOnlyOps =>
              /\ c.self.geometry = c.rcv.geometry
              /\ c.ret.bound =>
                    \E n \in 0..Len(c.rcv.geometry) :
                        c.ret.geometry = SubSeq(c.rcv.geometry, 1, n)

\* degrees labelled as Web Mercator: the label changed and the numbers stayed
C3_Witness ==
    \E c \in Calls :
        /\ c.op = "set_crs" /\ c.err = NoErr
        /\ c.rcv.crs = None /\ c.arg = WebMercator
        /\ c.rcv.geometry = <<poly>>
        /\ newdata.crs = WebMercator

\* C4: set_crs on a frame without a CRS never raises; set_crs on a frame that
\* has a CRS, with another CRS, raises InvalidCRSError, returns nothing and
\* leaves the frame with the CRS it had.
C4_SetCrsErrors ==
    \A c \in Calls : c.op = "set_crs" =>
        /\ Undefined(c.rcv) => c.err = NoErr
        /\ (Assigned(c.rcv) /\ c.rcv.crs # c.arg) =>
              /\ c.err = InvalidCRSError
              /\ ~c.ret.bound
              /\ newdata = c.rcv

\* set_crs was called with another CRS on a frame that had one
C4_Witness ==
    \E c \in Calls :
        /\ c.op = "set_crs"
        /\ Assigned(c.rcv) /\ c.rcv.crs # c.arg
        /\ c.rcv.geometry # <<>>

\* C5: to_crs on a frame without a CRS raises UndefinedCRSError for every
\* target, returns no frame (the cell stops there, data_in_3857 is not bound
\* from data) and leaves the frame as it was, coordinates and missing CRS.
C5_ReprojectUndefined ==
    \A c \in Calls : (c.op = "to_crs" /\ Undefined(c.rcv)) =>
        /\ c.err = UndefinedCRSError
        /\ ~c.ret.bound
        /\ c = out[Len(out)]
        /\ c.self = c.rcv
        /\ c.on = "data" => (data = c.rcv /\ ~data_in_3857.bound)
        /\ c.on = "newdata" => newdata = c.rcv

\* to_crs was called, with some target, on features that carry no CRS
C5_Witness ==
    \E c \in Calls :
        /\ c.op = "to_crs" /\ Undefined(c.rcv)
        /\ c.rcv.geometry # <<>>
        /\ c.arg \in CRS

\* an error the notebook's calls never raise: the spec's name for a
\* coordinate outside the target projection's envelope
ProjectionRangeError == "ProjectionRangeError"

\* some vertex of the receiver lies outside the envelope of the target CRS
OutOfRange(c) ==
    \E v \in Vertices(c.rcv.geometry) : ~InEnvelope(c.arg, c.rcv.crs, v)

\* C6 as stated: to_crs raises ProjectionRangeError whenever a coordinate of
\* the receiver lies outside the envelope of the target projection.
C6_RangeErrorRaised ==
    \A c \in Calls : (c.op = "to_crs" /\ Assigned(c.rcv) /\ OutOfRange(c)) =>
        c.err = ProjectionRangeError

\* C6 amended: to_crs does not raise when a coordinate lies outside the
\* envelope of the target projection; it returns the frame tagged with the
\* target CRS in which every vertex of every feature, in the envelope or
\* not, is the image of the input vertex: no feature is left out or left
\* untransformed and no latitude is clamped to the envelope.
C6_OutOfRangeTransformed ==
    \A c \in Calls : (c.op = "to_crs" /\ Assigned(c.rcv) /\ OutOfRange(c)) =>
        /\ c.err = NoErr
        /\ c.ret.bound /\ c.ret.crs = c.arg
        /\ ImageOf(c.rcv, c.ret)
        /\ \A i \in 1..Len(c.rcv.geometry) : \A j \in 1..Len(c.rcv.geometry[i]) :
              c.rcv.geometry[i][j][2] > 85000 =>
                  c.ret.geometry[i][j][2] > LatToY(85000)

\* a frame with a feature near latitude 89 next to one near latitude 15 went
\* through to_crs into Web Mercator
C6_Witness ==
    \E c \in Calls :
        /\ c.op = "to_crs" /\ c.rcv.crs = WGS84 /\ c.arg = WebMercator
        /\ c.rcv.geometry = <<FloodA, Polar>>
        /\ c.ret.bound

\* the operations on a collection that C7 and C8 name
CollectionOps ==
    {"set_crs", "to_crs", "area", "length", "total_bounds", "getitem", "to_file"}

\* C7: a collection is CRS-undefined or CRS-assigned, never both or neither,
\* and no operation on a CRS-assigned collection leaves it, or returns a
\* collection derived from it, CRS-undefined: what the notebook derives from
\* an assigned frame (data_in_3857, selection, the saved files) is assigned.
C7_AssignedStaysAssigned ==
    /\ \A df \in {data, data_in_3857, selection, newdata} :
          Assigned(df) # Undefined(df)
    /\ \A c \in Calls : (c.op \in CollectionOps /\ Assigned(c.rcv)) =>
          /\ Assigned(c.self)
          /\ c.ret.bound => Assigned(c.ret)
    /\ (data.bound /\ Assigned(data)) =>
          /\ data_in_3857.bound => Assigned(data_in_3857)
          /\ selection.bound =>
                (Assigned(selection) /\ files[outfp_selection].crs \in CRS)
    /\ (data_in_3857.bound \/ (selection.bound /\ Assigned(selection))) =>
          Assigned(data)

\* an assigned frame with a reprojection, a slice and a saved file derived from it
C7_Witness ==
    /\ data.bound /\ Assigned(data)
    /\ data_in_3857.bound /\ data_in_3857.crs # data.crs
    /\ selection.bound /\ selection.geometry # <<>>
    /\ files[outfp_selection].readable
    /\ \E c \in Calls : c.op = "to_file"

\* C8: only set_crs makes an assigned collection of an undefined one, only
\* to_crs makes a collection with another CRS value of an assigned one, and
\* a call that raises returns nothing and leaves the receiver as it was.
C8_OnlySetCrsAndToCrs ==
    \A c \in Calls : c.rcv.bound =>
        /\ (Undefined(c.rcv) /\ (Assigned(c.self) \/ (c.ret.bound /\ Assigned(c.ret))))
              => (c.op = "set_crs" /\ c.self = c.rcv)
        /\ (Assigned(c.rcv) /\ (c.self.crs # c.rcv.crs
                                \/ (c.ret.bound /\ c.ret.crs # c.rcv.crs)))
              => (c.op = "to_crs" /\ c.self = c.rcv)
        /\ c.err # NoErr => (c.self = c.rcv /\ ~c.ret.bound)
        /\ c.op \in {"area", "length", "total_bounds", "to_file", "loc"} =>
              c.self.crs = c.rcv.crs
        /\ (c.op = "to_file" /\ c.on = "selection") =>
              files[outfp_selection].crs = c.rcv.crs

\* set_crs has just taken newdata from undefined to assigned, next to a
\* data_in_3857 that to_crs gave another CRS than data's and a slice of data
C8_Witness ==
    /\ \E c \in Calls :
          /\ c.op = "set_crs" /\ c.err = NoErr
          /\ Undefined(c.rcv) /\ c.rcv.geometry # <<>>
          /\ newdata = c.ret /\ Assigned(newdata)
    /\ data_in_3857.bound /\ data_in_3857.crs # data.crs
    /\ selection.bound /\ selection.crs = data.crs

\* C9: a to_crs that returns gives a frame tagged with the target CRS, with as
\* many features in the same order, each with as many vertices, and every
\* vertex is the transform of the input vertex at its place.
C9_EveryVertexTransformed ==
    \A c \in Calls : (c.op = "to_crs" /\ c.err = NoErr) =>
        /\ c.ret.bound
        /\ c.ret.crs = c.arg
        /\ Len(c.ret.geometry) = Len(c.rcv.geometry)
        /\ \A i \in 1..Len(c.rcv.geometry) :
              /\ Len(c.ret.geometry[i]) = Len(c.rcv.geometry[i])
              /\ \A j \in 1..Len(c.rcv.geometry[i]) :
                    c.ret.geometry[i][j] =
                        Transform(c.rcv.crs, c.arg, c.rcv.geometry[i][j])

\* two different features went from degrees to metres and every vertex moved
C9_Witness ==
    \E c \in Calls :
        /\ c.op = "to_crs" /\ c.err = NoErr
        /\ c.rcv.crs = WGS84 /\ c.arg = WebMercator
        /\ Len(c.rcv.geometry) = 2 /\ c.rcv.geometry[1] # c.rcv.geometry[2]
        /\ \A i \in 1..2 : \A j \in 1..Len(c.rcv.geometry[i]) :
              c.ret.geometry[i][j] # c.rcv.geometry[i][j]

\* C10: area and length return one number per feature and never raise; they
\* come with UnitMismatchWarning exactly when the frame's CRS is in degrees,
\* and with no warning under a CRS in metres.
C10_WarningIffAngular ==
    \A c \in Calls : c.op \in {"area", "length"} =>
        /\ c.err = NoErr
        /\ Len(c.val) = Len(c.rcv.geometry)
        /\ (c.warn = UnitMismatchWarning) = (Assigned(c.rcv) /\ is_geographic(c.rcv.crs))
        /\ c.warn # UnitMismatchWarning => c.warn = NoWarn
        /\ c.rcv.crs = WebMercator => c.warn = NoWarn

\* areas of a frame in degrees came back, with the warning
C10_Witness ==
    \E c \in Calls :
        /\ c.op = "area" /\ c.rcv.crs = WGS84
        /\ Len(c.val) = 2 /\ c.val[1] > 0
        /\ c.warn = UnitMismatchWarning


\* C11: after load in WGS 84 and reprojection to the CRS in metres, area of the
\* reprojected frame comes without UnitMismatchWarning and is computed from
\* the coordinates in metres (square metres), while area of the original
\* frame, still in WGS 84, comes with the warning before and after the
\* reprojection.
C11_WarningFollowsTheFrame ==
    \A c \in Calls : c.op = "area" =>
        /\ (c.on = "data_in_3857" /\ c.rcv.crs = WebMercator) =>
              /\ c.warn = NoWarn /\ c.err = NoErr
              /\ c.rcv = data_in_3857
              /\ \A i \in 1..Len(c.rcv.geometry) :
                    c.val[i] = PolygonArea(c.rcv.geometry[i])
              /\ data.crs = WGS84 =>
                    c.rcv.geometry = TransformColumn(WGS84, WebMercator, data.geometry)
        /\ (c.on = "data" /\ c.rcv.crs = WGS84) =>
              /\ c.warn = UnitMismatchWarning
              /\ c.rcv = data /\ c.self = data

\* the frame loaded in WGS 84 was reprojected and the areas of the result came
\* back in square metres without the warning
C11_Witness ==
    \E c \in Calls :
        /\ c.op = "area" /\ c.on = "data_in_3857"
        /\ data.crs = WGS84 /\ c.rcv.crs = WebMercator
        /\ c.warn = NoWarn
        /\ Len(c.val) = 2 /\ c.val[1] > 1000000


\* C12 as stated: a load that finds no CRS metadata in its source yields a
\* frame without CRS, never one with a default such as EPSG:4326.
C12_NoMetadataNoCrs ==
    \A c \in Calls : (c.op = "read_file" /\ c.err = NoErr /\ c.arg = None) =>
        c.ret.crs = None

\* C12: a load yields the CRS embedded in its source when there is one; from
\* a shapefile without CRS metadata it yields a frame without CRS, and from a
\* GeoJSON document without a crs member a frame in EPSG:4326; a source that
\* cannot be read raises FormatError and binds no frame. A frame constructed
\* from nothing has no CRS.
C12_LoadedCrsIsTheSources ==
    /\ data.bound =>
          /\ files[filepath].readable
          /\ data.crs = files[filepath].crs
    /\ \A c \in Calls :
          /\ c.op = "GeoDataFrame" => c.ret.crs = None
          /\ c.op = "read_file" =>
                /\ c.err \in {NoErr, FormatError}
                /\ c.err = FormatError =>
                      /\ ~c.ret.bound
                      /\ c.on = filepath => (~files[filepath].readable /\ ~data.bound)
                /\ c.err = NoErr =>
                      /\ c.ret.bound
                      /\ c.arg \in CRS => c.ret.crs = c.arg
                      /\ c.arg = None =>
                            c.ret.crs = IF c.on = healthsites THEN WGS84 ELSE None
                      /\ c.on = filepath =>
                            /\ files[filepath].readable
                            /\ c.arg = files[filepath].crs
                            /\ c.ret.geometry = files[filepath].geometry
                            /\ data = c.ret

\* the shapefile had no CRS metadata and its features were loaded without CRS
C12_Witness ==
    \E c \in Calls :
        /\ c.op = "read_file" /\ c.on = filepath /\ c.err = NoErr
        /\ c.arg = None /\ c.ret.crs = None
        /\ c.ret.geometry # <<>>
        /\ data = c.ret


\* the grid of the coordinates: one millidegree, or its length in metres on
\* the equator
Tolerance(crs) == IF is_geographic(crs) THEN 1 ELSE 112

\* frames a and b hold the same number of features with the same number of
\* vertices, and no coordinate of a is further than tol from that of b
Within(a, b, tol) ==
    /\ Len(a) = Len(b)
    /\ \A i \in 1..Len(a) :
          /\ Len(a[i]) = Len(b[i])
          /\ \A j \in 1..Len(a[i]) : \A k \in 1..2 :
                Abs(a[i][j][k] - b[i][j][k]) <= tol

C14_BoundsOfCurrentCoordinates ==
    \A c \in Calls : c.op = "total_bounds" =>
        LET V == Vertices(c.rcv.geometry)
        IN  /\ c.err = NoErr /\ c.self = c.rcv /\ ~c.ret.bound
            /\ V = {} => c.val = <<>>
            /\ V # {} =>
                  /\ Len(c.val) = 4
                  /\ \A v \in V : /\ c.val[1] <= v[1] /\ v[1] <= c.val[3]
                                  /\ c.val[2] <= v[2] /\ v[2] <= c.val[4]
                  /\ \A k \in 1..4 : \E v \in V : c.val[k] = v[IF k \in {1, 3} THEN 1 ELSE 2]
            /\ c.on = "data" => c.rcv = data
            /\ c.on # "data" =>
                  /\ c.rcv.crs = WebMercator
                  /\ c.rcv = to_crs(data, WebMercator).ret
                  /\ \E r \in Calls : r.op = "to_crs" /\ r.rcv = data /\ r.ret = c.rcv

\* the bounds of the reprojection of a frame in WGS 84 came back, in metres,
\* and they are not the bounds of the frame in degrees
C14_Witness ==
    \E c \in Calls :
        /\ c.op = "total_bounds" /\ c.on # "data"
        /\ data.crs = WGS84 /\ Len(data.geometry) = 2
        /\ Len(c.val) = 4
        /\ c.val # total_bounds(data).val
        /\ c.val[3] > c.val[1]


\* the rows data[0:SliceEnd] of a frame
FirstRows(df) ==
    SubSeq(df.geometry, 1, IF SliceEnd < Len(df.geometry) THEN SliceEnd
                           ELSE Len(df.geometry))

Written(c) == files[IF c.on = "selection" THEN outfp_selection ELSE outfp_campus]

Basemaps == {"add_basemap", "bounds2img"}

C18_NotebookOrderKeepsCrsAssigned ==
    /\ data.bound => data = Frame(files[filepath].crs, files[filepath].geometry)
    /\ newdata.bound => (IF pc <= 13 THEN newdata.crs = None ELSE newdata.crs = WGS84)
    /\ files[outfp_campus].readable => files[outfp_campus].crs = WGS84
    /\ \A c \in Calls :
          /\ c.err \notin {UndefinedCRSError, InvalidCRSError}
          /\ c.op \in {"to_crs", "to_file"} => (Assigned(c.rcv) /\ c.err = NoErr)
          /\ c.op = "set_crs" => (Undefined(c.rcv) /\ c.ret.crs = WGS84)

\* the last cell has run: the campus polygon, given EPSG:4326 and saved, was
\* reprojected to EPSG:3857
C18_Witness ==
    /\ pc = 16
    /\ files[outfp_campus].readable
    /\ \E c \in Calls :
          /\ c.op = "to_crs" /\ c.on = "newdata" /\ c.err = NoErr
          /\ c.rcv = Frame(WGS84, <<poly>>)
          /\ c.ret.crs = WebMercator

===========================================================================
